---- MODULE Spec2Model ----
(***************************************************************************)
(* minimalkv.cache.CacheDecorator: a caching key-value store that combines *)
(* a cache backend and an authoritative backing store (_dstore).           *)
(*                                                                         *)
(* Every call the decorator makes into a backend is one atomic step; an   *)
(* operation of the decorator is the sequence of its backend calls.  Spec  *)
(* runs the operations of one caller one after the other; SpecConc runs a  *)
(* reader against one writer and SpecReaders runs two readers, both        *)
(* interleaved at the level of single backend calls and without faults.    *)
(***************************************************************************)
EXTENDS Integers, Sequences, FiniteSets, TLC

\* Number of distinct keys and of distinct values the callers use.
NumKeys == 2
NumVals == 2

Keys == 1..NumKeys
Vals == 1..NumVals
Procs == {"p1", "p2"}

ReadOps == {"get", "get_file", "open"}
WriteOps == {"put", "put_file"}

\* Failures a backend may raise at any call, whatever it holds.
Faults == {"IOError"}

VARIABLES
    store,    \* content of the backing store (_dstore): a dict key -> value
    cache,    \* content of the cache backend: a dict key -> value
    pc,       \* per caller: the backend call its operation makes next
    op,       \* per caller: the operation in progress, [name, key, arg]
    local,    \* per caller: data / fp / the pending outcome of a try block
    result,   \* per caller: what the finished operation returned or raised
    calls,    \* per caller: the backend calls the operation made so far
    sink,     \* per caller: what was written to the file passed to get_file
    pre,      \* per caller: store and cache as they were when the operation began
    prev,     \* the last operation that returned, if a successful put, delete or copy
    clean     \* no backend call has raised a fault so far

vars == <<store, cache, pc, op, local, result, calls, sink, pre, prev, clean>>

---------------------------------------------------------------------------
\* Dicts

Empty == [k \in {} |-> 0]

Has(d, k) == k \in DOMAIN d

\* The value of k as a set: {} when absent.
Lookup(d, k) == IF k \in DOMAIN d THEN {d[k]} ELSE {}

Upd(d, k, v) == [x \in DOMAIN d \cup {k} |-> IF x = k THEN v ELSE d[x]]

Del(d, k) == [x \in DOMAIN d \ {k} |-> d[x]]

Dicts == UNION {[D -> Vals] : D \in SUBSET Keys}

---------------------------------------------------------------------------
\* The storage contract both backends implement.  An outcome is what the call
\* returned or raised (tag, val) and the content of the backend after it (st).

Out(tag, val, st) == [tag |-> tag, val |-> val, st |-> st]

Fault(d) == {Out(f, 0, d) : f \in Faults}

BackendGet(d, k) ==
    (IF Has(d, k) THEN {Out("ok", d[k], d)} ELSE {Out("KeyError", 0, d)}) \cup Fault(d)

\* open returns a stream over the value held at the time of the call.
BackendOpen(d, k) == BackendGet(d, k)

\* get_file writes the value into the caller's file.
BackendGetFile(d, k) == BackendGet(d, k)

BackendPut(d, k, v) == {Out("ok", k, Upd(d, k, v))} \cup Fault(d)

BackendPutFile(d, k, v) == BackendPut(d, k, v)

\* Deleting an absent key is not an error.
BackendDelete(d, k) == {Out("ok", 0, Del(d, k))} \cup Fault(d)

BackendCopy(d, a, b) ==
    (IF Has(d, a) THEN {Out("ok", b, Upd(d, b, d[a]))} ELSE {Out("KeyError", 0, d)})
        \cup Fault(d) \cup {Out("NotImplementedError", 0, d)}

---------------------------------------------------------------------------
\* What an operation of the decorator hands back to its caller.

Ret(tag, v) == [kind |-> "return", tag |-> tag, val |-> v, by |-> "none"]

Raise(err, b) == [kind |-> "raise", tag |-> err, val |-> 0, by |-> b]

NoResult == [kind |-> "none", tag |-> "none", val |-> 0, by |-> "none"]

NoOp == [name |-> "none", key |-> 0, arg |-> 0]

NoPrev == [name |-> "none", key |-> 0, val |-> {}]

NoPre == [store |-> Empty, cache |-> Empty]

Call(b, m, k, tag) == [b |-> b, m |-> m, k |-> k, tag |-> tag]

FirstPc(name) ==
    CASE name = "delete" -> "delete_store"
      [] name = "get" -> "get_cache"
      [] name = "get_file" -> "get_file_cache"
      [] name = "open" -> "open_cache"
      [] name = "copy" -> "copy_store"
      [] name = "put" -> "put_store"
      [] name = "put_file" -> "put_file_store"

TypeOK ==
    /\ store \in Dicts
    /\ cache \in Dicts
    /\ DOMAIN pc = Procs
    /\ clean \in BOOLEAN

Init ==
    /\ store = Empty
    /\ cache = Empty
    /\ pc = [p \in Procs |-> "idle"]
    /\ op = [p \in Procs |-> NoOp]
    /\ local = [p \in Procs |-> NoResult]
    /\ result = [p \in Procs |-> NoResult]
    /\ calls = [p \in Procs |-> <<>>]
    /\ sink = [p \in Procs |-> <<>>]
    /\ pre = [p \in Procs |-> NoPre]
    /\ prev = NoPrev
    /\ clean = TRUE

---------------------------------------------------------------------------
\* Bookkeeping shared by the steps.

\* The step is backend call c, which leaves the backends as s and c.
Did(p, c, s, ca) ==
    /\ calls' = [calls EXCEPT ![p] = Append(@, c)]
    /\ store' = s
    /\ cache' = ca
    /\ clean' = (clean /\ c.tag \notin (Faults \cup {"NotImplementedError"}))

Goto(p, l) == pc' = [pc EXCEPT ![p] = l]

Finish(p, r) ==
    /\ pc' = [pc EXCEPT ![p] = "done"]
    /\ result' = [result EXCEPT ![p] = r]

Keep(p, l) ==
    /\ Goto(p, l)
    /\ UNCHANGED <<result, local>>

\* A caller begins operation name(key, arg).
Begin(p, name, key, arg) ==
    /\ pc[p] = "idle"
    /\ pc' = [pc EXCEPT ![p] = FirstPc(name)]
    /\ op' = [op EXCEPT ![p] = [name |-> name, key |-> key, arg |-> arg]]
    /\ pre' = [pre EXCEPT ![p] = [store |-> store, cache |-> cache]]
    /\ UNCHANGED <<store, cache, local, result, calls, sink, prev, clean>>

Invoke(p) ==
    \/ \E k \in Keys : \E name \in ReadOps \cup {"delete"} : Begin(p, name, k, 0)
    \/ \E k \in Keys : \E v \in Vals : \E name \in WriteOps : Begin(p, name, k, v)
    \/ \E a \in Keys : \E b \in Keys : Begin(p, "copy", a, b)

\* The key an operation writes, and the value store holds there once it returned.
Written(o) == IF o.name = "copy" THEN o.arg ELSE o.key

Summary(o, r, pr) ==
    IF r.kind = "return" /\ o.name \in {"put", "delete", "copy"}
    THEN [name |-> o.name, key |-> Written(o),
          val |-> CASE o.name = "put" -> {o.arg}
                    [] o.name = "delete" -> {}
                    [] o.name = "copy" -> Lookup(pr.store, o.key)]
    ELSE NoPrev

\* The operation hands its result to the caller.
Return(p) ==
    /\ pc[p] = "done"
    /\ prev' = Summary(op[p], result[p], pre[p])
    /\ pc' = [pc EXCEPT ![p] = "idle"]
    /\ op' = [op EXCEPT ![p] = NoOp]
    /\ local' = [local EXCEPT ![p] = NoResult]
    /\ result' = [result EXCEPT ![p] = NoResult]
    /\ calls' = [calls EXCEPT ![p] = <<>>]
    /\ sink' = [sink EXCEPT ![p] = <<>>]
    /\ pre' = [pre EXCEPT ![p] = NoPre]
    /\ UNCHANGED <<store, cache, clean>>

---------------------------------------------------------------------------
\* delete

\* Mutant: an exception of store.delete is swallowed and delete goes on.
DeleteStoreSwallow(p) ==
    /\ pc[p] = "delete_store"
    /\ \E o \in BackendDelete(store, op[p].key) :
        /\ Did(p, Call("store", "delete", op[p].key, o.tag), o.st, cache)
        /\ Keep(p, "delete_cache")
    /\ UNCHANGED <<op, sink, pre, prev>>

\* self._dstore.delete(key): an exception leaves delete at once.
DeleteStore(p) ==
    /\ pc[p] = "delete_store"
    /\ \E o \in BackendDelete(store, op[p].key) :
        /\ Did(p, Call("store", "delete", op[p].key, o.tag), o.st, cache)
        /\ IF o.tag = "ok"
           THEN Keep(p, "delete_cache")
           ELSE Finish(p, Raise(o.tag, "store")) /\ UNCHANGED local
    /\ UNCHANGED <<op, sink, pre, prev>>

\* Mutant: delete returns without touching the cache.
DeleteCacheSkipped(p) ==
    /\ pc[p] = "delete_cache"
    /\ Finish(p, Ret("none", 0))
    /\ UNCHANGED <<store, cache, op, local, calls, sink, pre, prev, clean>>

\* self.cache.delete(key)
DeleteCache(p) ==
    /\ pc[p] = "delete_cache"
    /\ \E o \in BackendDelete(cache, op[p].key) :
        /\ Did(p, Call("cache", "delete", op[p].key, o.tag), store, o.st)
        /\ IF o.tag = "ok"
           THEN Finish(p, Ret("none", 0))
           ELSE Finish(p, Raise(o.tag, "cache"))
    /\ UNCHANGED <<op, local, sink, pre, prev>>

---------------------------------------------------------------------------
\* get

\* Mutant: a value found in the cache is not returned, the store is read anyway.
GetCacheThenStore(p) ==
    /\ pc[p] = "get_cache"
    /\ \E o \in BackendGet(cache, op[p].key) :
        /\ Did(p, Call("cache", "get", op[p].key, o.tag), store, o.st)
        /\ IF o.tag = "KeyError" THEN Keep(p, "get_store") ELSE Keep(p, "get_bypass")
    /\ UNCHANGED <<op, sink, pre, prev>>

\* try: return self.cache.get(key)
GetCache(p) ==
    /\ pc[p] = "get_cache"
    /\ \E o \in BackendGet(cache, op[p].key) :
        /\ Did(p, Call("cache", "get", op[p].key, o.tag), store, o.st)
        /\ CASE o.tag = "ok" -> Finish(p, Ret("data", o.val)) /\ UNCHANGED local
             [] o.tag = "KeyError" -> Keep(p, "get_store")
             [] o.tag = "IOError" -> Keep(p, "get_bypass")
             [] OTHER -> Finish(p, Raise(o.tag, "cache")) /\ UNCHANGED local
    /\ UNCHANGED <<op, sink, pre, prev>>

\* except KeyError: data = self._dstore.get(key)
GetStore(p) ==
    /\ pc[p] = "get_store"
    /\ \E o \in BackendGet(store, op[p].key) :
        /\ Did(p, Call("store", "get", op[p].key, o.tag), o.st, cache)
        /\ IF o.tag = "ok"
           THEN /\ Goto(p, "get_fill")
                /\ local' = [local EXCEPT ![p] = Ret("data", o.val)]
                /\ UNCHANGED result
           ELSE Finish(p, Raise(o.tag, "store")) /\ UNCHANGED local
    /\ UNCHANGED <<op, sink, pre, prev>>

\* Mutant: the value read from the store is returned without cache.put.
GetFillSkipped(p) ==
    /\ pc[p] = "get_fill"
    /\ Finish(p, local[p])
    /\ UNCHANGED <<store, cache, op, local, calls, sink, pre, prev, clean>>

\* Mutant: data is kept in an attribute the callers share, not in a local.
GetFillShared(p) ==
    /\ pc[p] = "get_fill"
    /\ \E q \in Procs :
        /\ pc[q] = "get_fill"
        /\ \E o \in BackendPut(cache, op[p].key, local[q].val) :
            /\ Did(p, Call("cache", "put", op[p].key, o.tag), store, o.st)
            /\ IF o.tag = "ok"
               THEN Finish(p, local[q])
               ELSE Finish(p, Raise(o.tag, "cache"))
    /\ UNCHANGED <<op, local, sink, pre, prev>>

\* self.cache.put(key, data); return data
GetFill(p) ==
    /\ pc[p] = "get_fill"
    /\ \E o \in BackendPut(cache, op[p].key, local[p].val) :
        /\ Did(p, Call("cache", "put", op[p].key, o.tag), store, o.st)
        /\ IF o.tag = "ok"
           THEN Finish(p, local[p])
           ELSE Finish(p, Raise(o.tag, "cache"))
    /\ UNCHANGED <<op, local, sink, pre, prev>>

\* Mutant: an IOError of the cache is handled like a miss (except (KeyError, IOError)).
GetBypassFill(p) ==
    /\ pc[p] = "get_bypass"
    /\ \E o \in BackendGet(store, op[p].key) :
        /\ Did(p, Call("store", "get", op[p].key, o.tag), o.st, cache)
        /\ IF o.tag = "ok"
           THEN /\ Goto(p, "get_fill")
                /\ local' = [local EXCEPT ![p] = Ret("data", o.val)]
                /\ UNCHANGED result
           ELSE Finish(p, Raise(o.tag, "store")) /\ UNCHANGED local
    /\ UNCHANGED <<op, sink, pre, prev>>

\* except IOError: return self._dstore.get(key)
GetBypass(p) ==
    /\ pc[p] = "get_bypass"
    /\ \E o \in BackendGet(store, op[p].key) :
        /\ Did(p, Call("store", "get", op[p].key, o.tag), o.st, cache)
        /\ IF o.tag = "ok"
           THEN Finish(p, Ret("data", o.val))
           ELSE Finish(p, Raise(o.tag, "store"))
    /\ UNCHANGED <<op, local, sink, pre, prev>>

---------------------------------------------------------------------------
\* get_file

\* What cache.get_file leaves in the caller's file: the value when it returned,
\* nothing or part of the data (written 0) when it raised IOError.
Written2File(f, o) ==
    CASE o.tag = "ok" -> {Append(f, o.val)}
      [] o.tag = "IOError" -> {f, Append(f, 0)}
      [] OTHER -> {f}

\* Mutant: an IOError of cache.get_file falls back to the store like a miss.
GetFileCacheFallback(p) ==
    /\ pc[p] = "get_file_cache"
    /\ \E o \in BackendGetFile(cache, op[p].key) :
        /\ Did(p, Call("cache", "get_file", op[p].key, o.tag), store, o.st)
        /\ \E f \in Written2File(sink[p], o) : sink' = [sink EXCEPT ![p] = f]
        /\ IF o.tag = "ok"
           THEN Finish(p, Ret("none", 0)) /\ UNCHANGED local
           ELSE Keep(p, "get_file_store")
    /\ UNCHANGED <<op, pre, prev>>

\* try: return self.cache.get_file(key, file); an IOError is not caught.
GetFileCache(p) ==
    /\ pc[p] = "get_file_cache"
    /\ \E o \in BackendGetFile(cache, op[p].key) :
        /\ Did(p, Call("cache", "get_file", op[p].key, o.tag), store, o.st)
        /\ \E f \in Written2File(sink[p], o) : sink' = [sink EXCEPT ![p] = f]
        /\ CASE o.tag = "ok" -> Finish(p, Ret("none", 0)) /\ UNCHANGED local
             [] o.tag = "KeyError" -> Keep(p, "get_file_store")
             [] OTHER -> Finish(p, Raise(o.tag, "cache")) /\ UNCHANGED local
    /\ UNCHANGED <<op, pre, prev>>

\* except KeyError: fp = self._dstore.open(key)
GetFileStore(p) ==
    /\ pc[p] = "get_file_store"
    /\ \E o \in BackendOpen(store, op[p].key) :
        /\ Did(p, Call("store", "open", op[p].key, o.tag), o.st, cache)
        /\ IF o.tag = "ok"
           THEN /\ Goto(p, "get_file_fill")
                /\ local' = [local EXCEPT ![p] = Ret("stream", o.val)]
                /\ UNCHANGED result
           ELSE Finish(p, Raise(o.tag, "store")) /\ UNCHANGED local
    /\ UNCHANGED <<op, sink, pre, prev>>

\* self.cache.put_file(key, fp)
GetFileFill(p) ==
    /\ pc[p] = "get_file_fill"
    /\ \E o \in BackendPutFile(cache, op[p].key, local[p].val) :
        /\ Did(p, Call("cache", "put_file", op[p].key, o.tag), store, o.st)
        /\ IF o.tag = "ok"
           THEN Keep(p, "get_file_reread")
           ELSE Finish(p, Raise(o.tag, "cache")) /\ UNCHANGED local
    /\ UNCHANGED <<op, sink, pre, prev>>

\* return self.cache.get_file(key, file), outside the try block
GetFileReread(p) ==
    /\ pc[p] = "get_file_reread"
    /\ \E o \in BackendGetFile(cache, op[p].key) :
        /\ Did(p, Call("cache", "get_file", op[p].key, o.tag), store, o.st)
        /\ \E f \in Written2File(sink[p], o) : sink' = [sink EXCEPT ![p] = f]
        /\ IF o.tag = "ok"
           THEN Finish(p, Ret("none", 0))
           ELSE Finish(p, Raise(o.tag, "cache"))
    /\ UNCHANGED <<op, local, pre, prev>>

---------------------------------------------------------------------------
\* open

\* try: return self.cache.open(key)
OpenCache(p) ==
    /\ pc[p] = "open_cache"
    /\ \E o \in BackendOpen(cache, op[p].key) :
        /\ Did(p, Call("cache", "open", op[p].key, o.tag), store, o.st)
        /\ CASE o.tag = "ok" -> Finish(p, Ret("stream", o.val)) /\ UNCHANGED local
             [] o.tag = "KeyError" -> Keep(p, "open_store")
             [] o.tag = "IOError" -> Keep(p, "open_bypass")
             [] OTHER -> Finish(p, Raise(o.tag, "cache")) /\ UNCHANGED local
    /\ UNCHANGED <<op, sink, pre, prev>>

\* except KeyError: fp = self._dstore.open(key)
OpenStore(p) ==
    /\ pc[p] = "open_store"
    /\ \E o \in BackendOpen(store, op[p].key) :
        /\ Did(p, Call("store", "open", op[p].key, o.tag), o.st, cache)
        /\ IF o.tag = "ok"
           THEN /\ Goto(p, "open_fill")
                /\ local' = [local EXCEPT ![p] = Ret("stream", o.val)]
                /\ UNCHANGED result
           ELSE Finish(p, Raise(o.tag, "store")) /\ UNCHANGED local
    /\ UNCHANGED <<op, sink, pre, prev>>

\* Mutant: an IOError of cache.put_file is caught by the except IOError clause.
OpenFillFallback(p) ==
    /\ pc[p] = "open_fill"
    /\ \E o \in BackendPutFile(cache, op[p].key, local[p].val) :
        /\ Did(p, Call("cache", "put_file", op[p].key, o.tag), store, o.st)
        /\ IF o.tag = "ok"
           THEN Keep(p, "open_reopen")
           ELSE Keep(p, "open_bypass")
    /\ UNCHANGED <<op, sink, pre, prev>>

\* self.cache.put_file(key, fp)
OpenFill(p) ==
    /\ pc[p] = "open_fill"
    /\ \E o \in BackendPutFile(cache, op[p].key, local[p].val) :
        /\ Did(p, Call("cache", "put_file", op[p].key, o.tag), store, o.st)
        /\ IF o.tag = "ok"
           THEN Keep(p, "open_reopen")
           ELSE Finish(p, Raise(o.tag, "cache")) /\ UNCHANGED local
    /\ UNCHANGED <<op, sink, pre, prev>>

\* return self.cache.open(key), inside the except KeyError block
OpenReopen(p) ==
    /\ pc[p] = "open_reopen"
    /\ \E o \in BackendOpen(cache, op[p].key) :
        /\ Did(p, Call("cache", "open", op[p].key, o.tag), store, o.st)
        /\ IF o.tag = "ok"
           THEN Finish(p, Ret("stream", o.val))
           ELSE Finish(p, Raise(o.tag, "cache"))
    /\ UNCHANGED <<op, local, sink, pre, prev>>

\* except IOError: return self._dstore.open(key)
OpenBypass(p) ==
    /\ pc[p] = "open_bypass"
    /\ \E o \in BackendOpen(store, op[p].key) :
        /\ Did(p, Call("store", "open", op[p].key, o.tag), o.st, cache)
        /\ IF o.tag = "ok"
           THEN Finish(p, Ret("stream", o.val))
           ELSE Finish(p, Raise(o.tag, "store"))
    /\ UNCHANGED <<op, local, sink, pre, prev>>

---------------------------------------------------------------------------
\* copy, put, put_file: a try block around the store call, and cache.delete
\* in its finally block.

\* The try block ends with the store call's outcome pending.
Pending(o) == IF o.tag = "ok" THEN Ret("id", o.val) ELSE Raise(o.tag, "store")

\* Mutant: an exception of the store call is kept when cache.delete raises too.
FinallyKeepsFirst(p, key) ==
    /\ \E o \in BackendDelete(cache, key) :
        /\ Did(p, Call("cache", "delete", key, o.tag), store, o.st)
        /\ IF o.tag = "ok" \/ local[p].kind = "raise"
           THEN Finish(p, local[p])
           ELSE Finish(p, Raise(o.tag, "cache"))
    /\ UNCHANGED <<op, local, sink, pre, prev>>

\* The finally block: an exception of cache.delete replaces the pending outcome.
Finally(p, key) ==
    /\ \E o \in BackendDelete(cache, key) :
        /\ Did(p, Call("cache", "delete", key, o.tag), store, o.st)
        /\ IF o.tag = "ok"
           THEN Finish(p, local[p])
           ELSE Finish(p, Raise(o.tag, "cache"))
    /\ UNCHANGED <<op, local, sink, pre, prev>>

\* The try block: the store call.
Try(p, outs, m) ==
    /\ \E o \in outs :
        /\ Did(p, Call("store", m, Written(op[p]), o.tag), o.st, cache)
        /\ local' = [local EXCEPT ![p] = Pending(o)]
    /\ UNCHANGED <<op, result, sink, pre, prev>>

\* try: k = self._dstore.copy(source, dest)
CopyStore(p) ==
    /\ pc[p] = "copy_store"
    /\ Goto(p, "copy_cache")
    /\ Try(p, BackendCopy(store, op[p].key, op[p].arg), "copy")

\* Mutant: copy invalidates the source key instead of the destination key.
CopyCacheSource(p) ==
    /\ pc[p] = "copy_cache"
    /\ Finally(p, op[p].key)

\* Mutant: copy invalidates the source key along with the destination key.
CopyCacheBoth(p) ==
    /\ pc[p] = "copy_cache"
    /\ \E o \in BackendDelete(Del(cache, op[p].key), op[p].arg) :
        /\ Did(p, Call("cache", "delete", op[p].arg, o.tag), store, o.st)
        /\ IF o.tag = "ok"
           THEN Finish(p, local[p])
           ELSE Finish(p, Raise(o.tag, "cache"))
    /\ UNCHANGED <<op, local, sink, pre, prev>>

\* Mutant: copy refreshes the cache entry of dest with the copied value.
CopyCacheWriteThrough(p) ==
    /\ pc[p] = "copy_cache"
    /\ \E o \in (IF Has(store, op[p].arg)
                 THEN BackendPut(cache, op[p].arg, store[op[p].arg])
                 ELSE BackendDelete(cache, op[p].arg)) :
        /\ Did(p, Call("cache", IF Has(store, op[p].arg) THEN "put" ELSE "delete",
                       op[p].arg, o.tag), store, o.st)
        /\ IF o.tag = "ok"
           THEN Finish(p, local[p])
           ELSE Finish(p, Raise(o.tag, "cache"))
    /\ UNCHANGED <<op, local, sink, pre, prev>>

\* finally: self.cache.delete(dest); return k
CopyCache(p) ==
    /\ pc[p] = "copy_cache"
    /\ Finally(p, op[p].arg)

\* Mutant: put has no finally block, an exception of store.put leaves it at once.
PutStoreNoFinally(p) ==
    /\ pc[p] = "put_store"
    /\ \E o \in BackendPut(store, op[p].key, op[p].arg) :
        /\ Did(p, Call("store", "put", op[p].key, o.tag), o.st, cache)
        /\ local' = [local EXCEPT ![p] = Pending(o)]
        /\ IF o.tag = "ok"
           THEN Goto(p, "put_cache") /\ UNCHANGED result
           ELSE Finish(p, Pending(o))
    /\ UNCHANGED <<op, sink, pre, prev>>

\* try: return self._dstore.put(key, data)
PutStore(p) ==
    /\ pc[p] = "put_store"
    /\ Goto(p, "put_cache")
    /\ Try(p, BackendPut(store, op[p].key, op[p].arg), "put")

\* Mutant: put has no finally block, the cache is not invalidated.
PutCacheSkipped(p) ==
    /\ pc[p] = "put_cache"
    /\ Finish(p, local[p])
    /\ UNCHANGED <<store, cache, op, local, calls, sink, pre, prev, clean>>

\* finally: self.cache.delete(key)
PutCache(p) ==
    /\ pc[p] = "put_cache"
    /\ Finally(p, op[p].key)

\* try: return self._dstore.put_file(key, file)
PutFileStore(p) ==
    /\ pc[p] = "put_file_store"
    /\ Goto(p, "put_file_cache")
    /\ Try(p, BackendPutFile(store, op[p].key, op[p].arg), "put_file")

\* Mutant: put_file writes the value through to the cache instead of deleting it.
PutFileCacheWriteThrough(p) ==
    /\ pc[p] = "put_file_cache"
    /\ \E o \in BackendPutFile(cache, op[p].key, op[p].arg) :
        /\ Did(p, Call("cache", "put_file", op[p].key, o.tag), store, o.st)
        /\ IF o.tag = "ok"
           THEN Finish(p, local[p])
           ELSE Finish(p, Raise(o.tag, "cache"))
    /\ UNCHANGED <<op, local, sink, pre, prev>>

\* finally: self.cache.delete(key)
PutFileCache(p) ==
    /\ pc[p] = "put_file_cache"
    /\ Finally(p, op[p].key)

---------------------------------------------------------------------------
Step(p) ==
    \/ DeleteStore(p)
    \/ DeleteCache(p)
    \/ GetCache(p)
    \/ GetStore(p)
    \/ GetFill(p)
    \/ GetBypass(p)
    \/ GetFileCache(p)
    \/ GetFileStore(p)
    \/ GetFileFill(p)
    \/ GetFileReread(p)
    \/ OpenCache(p)
    \/ OpenStore(p)
    \/ OpenFill(p)
    \/ OpenReopen(p)
    \/ OpenBypass(p)
    \/ CopyStore(p)
    \/ CopyCache(p)
    \/ PutStore(p)
    \/ PutCache(p)
    \/ PutFileStore(p)
    \/ PutFileCache(p)

\* One caller at a time: an operation begins when no other is in progress.
Quiet == \A q \in Procs : pc[q] = "idle"

Next ==
    \/ Quiet /\ Invoke("p1")
    \/ \E p \in Procs : Step(p)
    \/ \E p \in Procs : Return(p)

Spec == Init /\ [][Next]_vars

---------------------------------------------------------------------------
\* Concurrent callers.  The decorator takes no lock, so the backend calls of
\* operations in progress interleave freely.  In these specifications no
\* backend call raises a fault (clean stays true).

\* The callers find a store that holds anything and a cache that holds some of
\* store's entries.
InitCoherent ==
    /\ store \in Dicts
    /\ cache \in {c \in Dicts : \A k \in DOMAIN c : Lookup(store, k) = {c[k]}}
    /\ pc = [p \in Procs |-> "idle"]
    /\ op = [p \in Procs |-> NoOp]
    /\ local = [p \in Procs |-> NoResult]
    /\ result = [p \in Procs |-> NoResult]
    /\ calls = [p \in Procs |-> <<>>]
    /\ sink = [p \in Procs |-> <<>>]
    /\ pre = [p \in Procs |-> NoPre]
    /\ prev = NoPrev
    /\ clean = TRUE

\* SpecConc: caller p2 makes one write (put, put_file) while caller p1 reads
\* (get, get_file, open); p1 may go on reading once the write has completed.
NextConc ==
    \/ \E k \in Keys : \E name \in ReadOps : Begin("p1", name, k, 0)
    \/ \E k \in Keys : \E v \in Vals : \E name \in WriteOps : Begin("p2", name, k, v)
    \/ GetCache("p1") /\ clean'
    \/ GetStore("p1") /\ clean'
    \/ GetFill("p1") /\ clean'
    \/ GetFileCache("p1") /\ clean'
    \/ GetFileStore("p1") /\ clean'
    \/ GetFileFill("p1") /\ clean'
    \/ GetFileReread("p1") /\ clean'
    \/ OpenCache("p1") /\ clean'
    \/ OpenStore("p1") /\ clean'
    \/ OpenFill("p1") /\ clean'
    \/ OpenReopen("p1") /\ clean'
    \/ PutStore("p2") /\ clean'
    \/ PutCache("p2") /\ clean'
    \/ PutFileStore("p2") /\ clean'
    \/ PutFileCache("p2") /\ clean'
    \/ pc["p2"] = "done" /\ Return("p1")

SpecConc == InitCoherent /\ [][NextConc]_vars

\* SpecReaders: every caller issues get only.
NextReaders ==
    \/ \E p \in Procs : \E k \in Keys : Begin(p, "get", k, 0)
    \/ \E p \in Procs : GetCache(p) /\ clean'
    \/ \E p \in Procs : GetStore(p) /\ clean'
    \/ \E p \in Procs : GetFill(p) /\ clean'
    \/ \E p \in Procs : Return(p)

SpecReaders == InitCoherent /\ [][NextReaders]_vars

---------------------------------------------------------------------------
\* Vocabulary of the properties.

\* Caller p's operation name has finished and its outcome is in result[p].
Done(p, name) == pc[p] = "done" /\ op[p].name = name

Returned(p) == result[p].kind = "return"

\* No backend call of p's operation raised a fault.
NoFault(p) == \A i \in DOMAIN calls[p] : calls[p][i].tag \in {"ok", "KeyError"}

\* p's operation called method m of backend b.
Made(p, b, m) == \E i \in DOMAIN calls[p] : calls[p][i].b = b /\ calls[p][i].m = m

CalledStore(p) == \E i \in DOMAIN calls[p] : calls[p][i].b = "store"

\* p's operation began with a call that reported tag.
FirstCall(p, tag) == Len(calls[p]) >= 1 /\ calls[p][1].tag = tag

\* The previous operation was name, returned, and wrote the key p now reads.
After(p, name) == prev.name = name /\ prev.key = op[p].key

---------------------------------------------------------------------------
\* C1 (as stated): once a put, put_file, delete or copy(dest = k) has completed,
\* returned or raised, and no cache.delete call of it failed, the cache holds no
\* value for k.
C1_Stated ==
    \A p \in Procs :
        (/\ pc[p] = "done"
         /\ op[p].name \in WriteOps \cup {"delete", "copy"}
         /\ ~ \E i \in DOMAIN calls[p] :
                calls[p][i].b = "cache" /\ calls[p][i].m = "delete" /\ calls[p][i].tag # "ok")
        => ~ Has(cache, Written(op[p]))

\* C2: a put(k, v) that returns, followed at once by get(k): the get never
\* returns anything but v, and returns v when none of its backend calls faults,
\* whatever store and cache held before the put.
C2_ReadYourWrite ==
    \A p \in Procs :
        (Done(p, "get") /\ After(p, "put"))
        => /\ Returned(p) => \E v \in prev.val : result[p] = Ret("data", v)
           /\ NoFault(p) => Returned(p)

C2_Witness ==
    \E p \in Procs :
        /\ Done(p, "get") /\ After(p, "put") /\ Returned(p)
        /\ result[p].val \in prev.val
        /\ FirstCall(p, "KeyError")
        /\ Made(p, "cache", "put")

\* C3: when put(k, v) or put_file(k, v) returns, store holds v at k and the cache
\* holds nothing at k; and the only steps that ever give the cache an entry for
\* a key are steps of a read operation (get, get_file, open) on that key, so the
\* entry stays absent until such an operation runs.
C3_WriteDone ==
    \A p \in Procs :
        (pc[p] = "done" /\ op[p].name \in WriteOps /\ Returned(p))
        => /\ Lookup(store, op[p].key) = {op[p].arg}
           /\ ~ Has(cache, op[p].key)

\* C3, second part: a step that gives the cache an entry for k is a step of a
\* read operation on k.
C3_OnlyReadsPopulate ==
    \A k \in Keys :
        (~ Has(cache, k) /\ Has(cache', k))
        => \E p \in Procs :
            /\ op[p].name \in ReadOps
            /\ op[p].key = k
            /\ pc'[p] # pc[p]

\* C3: a write invalidates and never pre-populates: both parts above, in every
\* state and at every step.
C3_WriteInvalidates == [] C3_WriteDone /\ [][C3_OnlyReadsPopulate]_vars

C3_Witness ==
    \E p \in Procs :
        /\ pc[p] = "done" /\ op[p].name = "put_file" /\ Returned(p)
        /\ Has(pre[p].cache, op[p].key)
        /\ Lookup(pre[p].store, op[p].key) # {op[p].arg}

\* C4: get(k) that finds k absent from the cache and v at k in store: if the
\* cache reported the miss and get returns, it returns v and the cache holds v at
\* k by then; with no fault it does return, after exactly cache.get, store.get,
\* cache.put.
C4_MissPopulates ==
    \A p \in Procs :
        (/\ Done(p, "get")
         /\ ~ Has(pre[p].cache, op[p].key)
         /\ Has(pre[p].store, op[p].key))
        => /\ (FirstCall(p, "KeyError") /\ Returned(p))
                => /\ result[p] = Ret("data", pre[p].store[op[p].key])
                   /\ Lookup(cache, op[p].key) = {pre[p].store[op[p].key]}
                   /\ Made(p, "cache", "put")
           /\ NoFault(p) => (FirstCall(p, "KeyError") /\ Returned(p))

C4_Witness ==
    \E p \in Procs :
        /\ Done(p, "get") /\ Returned(p) /\ NoFault(p)
        /\ ~ Has(pre[p].cache, op[p].key)
        /\ Has(pre[p].store, op[p].key)
        /\ Has(cache, op[p].key)

\* C5: get(k) served by the cache (cache.get returned): the result is the value
\* the cache held, cache.get is the only backend call, and store is as it was,
\* whatever store holds at k; with k in the cache and no fault, get is served so.
C5_HitFrame ==
    \A p \in Procs :
        (Done(p, "get") /\ Has(pre[p].cache, op[p].key))
        => /\ FirstCall(p, "ok")
                => /\ result[p] = Ret("data", pre[p].cache[op[p].key])
                   /\ Len(calls[p]) = 1
                   /\ ~ CalledStore(p)
                   /\ store = pre[p].store
           /\ NoFault(p) => FirstCall(p, "ok")

C5_Witness ==
    \E p \in Procs :
        /\ Done(p, "get") /\ FirstCall(p, "ok") /\ Returned(p)
        /\ Lookup(store, op[p].key) # Lookup(cache, op[p].key)

GetFileFaulted(p) ==
    \E i \in DOMAIN calls[p] :
        calls[p][i].b = "cache" /\ calls[p][i].m = "get_file" /\ calls[p][i].tag = "IOError"

\* C7 (as stated): when cache.get_file raises IOError during get_file(k, file),
\* get_file fails with that error and has made no call to store.
C7_Stated ==
    \A p \in Procs :
        (Done(p, "get_file") /\ GetFileFaulted(p))
        => /\ result[p] = Raise("IOError", "cache")
           /\ ~ CalledStore(p)

\* C7 (amended): when cache.get_file raises IOError during get_file(k, file),
\* get_file fails with that error and makes no backend call after the failing
\* one; when it is the first cache.get_file that raises, store is never called.
C7_NoFallback ==
    \A p \in Procs :
        (Done(p, "get_file") /\ GetFileFaulted(p))
        => /\ result[p] = Raise("IOError", "cache")
           /\ calls[p][Len(calls[p])].tag = "IOError"
           /\ calls[p][Len(calls[p])].b = "cache"
           /\ \A i \in 1..(Len(calls[p]) - 1) : calls[p][i].tag # "IOError"
           /\ FirstCall(p, "IOError") => (Len(calls[p]) = 1 /\ ~ CalledStore(p))
           /\ store = pre[p].store

C7_Witness ==
    \E p \in Procs :
        /\ Done(p, "get_file") /\ FirstCall(p, "IOError")
        /\ Has(store, op[p].key)
        /\ sink[p] = <<0>>

\* C8: a delete(k) that returns leaves k in neither store nor cache, whatever they
\* held; a get(k) issued next raises, and with no fault raises store's KeyError;
\* delete(k) with k in neither backend returns when no backend call faults.
C8_Delete ==
    \A p \in Procs :
        /\ (Done(p, "delete") /\ Returned(p))
            => (~ Has(store, op[p].key) /\ ~ Has(cache, op[p].key))
        /\ (Done(p, "delete") /\ NoFault(p)) => Returned(p)
        /\ (Done(p, "get") /\ After(p, "delete"))
            => /\ ~ Returned(p)
               /\ NoFault(p) => result[p] = Raise("KeyError", "store")

C8_Witness ==
    \E p \in Procs :
        /\ Done(p, "get") /\ After(p, "delete")
        /\ result[p] = Raise("KeyError", "store")

\* C8: the delete of a key held by neither backend is reached and returns.
C8_WitnessAbsent ==
    \E p \in Procs :
        /\ Done(p, "delete") /\ Returned(p)
        /\ ~ Has(pre[p].store, op[p].key) /\ ~ Has(pre[p].cache, op[p].key)

\* C9: a copy(a, b) that returns leaves at b in store the value store held at a
\* and nothing at b in the cache, whatever the cache held at b; a get(b) issued
\* next never returns anything else, and returns that value when no call faults.
C9_Copy ==
    \A p \in Procs :
        /\ (Done(p, "copy") /\ Returned(p))
            => /\ Has(pre[p].store, op[p].key)
               /\ Lookup(store, op[p].arg) = Lookup(pre[p].store, op[p].key)
               /\ ~ Has(cache, op[p].arg)
        /\ (Done(p, "get") /\ After(p, "copy"))
            => /\ Returned(p) => \E v \in prev.val : result[p] = Ret("data", v)
               /\ NoFault(p) => Returned(p)

C9_Witness ==
    \E p \in Procs :
        /\ Done(p, "get") /\ After(p, "copy") /\ Returned(p)
        /\ FirstCall(p, "KeyError")
        /\ result[p].val \in prev.val

\* C9: a copy onto a key whose cache entry differs from the copied value is reached.
C9_WitnessStale ==
    \E p \in Procs :
        /\ Done(p, "copy") /\ Returned(p)
        /\ op[p].key # op[p].arg
        /\ Has(pre[p].cache, op[p].arg)
        /\ Lookup(pre[p].cache, op[p].arg) # Lookup(pre[p].store, op[p].key)

\* C10 (as stated): copy(source, dest) leaves the cache entry of source as it
\* was, for all source and dest, whether store.copy succeeds or fails.
C10_Stated ==
    \A p \in Procs :
        Done(p, "copy") => Lookup(cache, op[p].key) = Lookup(pre[p].cache, op[p].key)

\* C10 (amended): copy(source, dest) with source # dest leaves the cache entry
\* of source as it was, whether store.copy succeeds or fails; every cache entry
\* other than dest's is left as it was.
C10_SourceKept ==
    \A p \in Procs :
        Done(p, "copy")
        => \A k \in Keys \ {op[p].arg} : Lookup(cache, k) = Lookup(pre[p].cache, k)

C10_Witness ==
    \E p \in Procs :
        /\ Done(p, "copy") /\ ~ Returned(p)
        /\ op[p].key # op[p].arg
        /\ Has(cache, op[p].key)
        /\ Has(pre[p].cache, op[p].arg)
        /\ ~ Has(cache, op[p].arg)

\* The operations that end with cache.delete in a finally block.
Finalized == WriteOps \cup {"copy"}

\* C11: in put, put_file and copy the backend calls are, in this order, the store
\* call and one cache.delete on the written key (dest for copy), whether the
\* store call returned or raised: none before the store call, the store call
\* alone while the finally block is pending, both once the operation is done.
C11_InvalidationOrder ==
    \A p \in Procs :
        /\ pc[p] \in {"put_store", "put_file_store", "copy_store"} => calls[p] = <<>>
        /\ pc[p] \in {"put_cache", "put_file_cache", "copy_cache"}
            => /\ Len(calls[p]) = 1
               /\ calls[p][1].b = "store"
               /\ calls[p][1].m = op[p].name
        /\ (pc[p] = "done" /\ op[p].name \in Finalized)
            => /\ Len(calls[p]) = 2
               /\ calls[p][1].b = "store"
               /\ calls[p][1].m = op[p].name
               /\ calls[p][2].b = "cache"
               /\ calls[p][2].m = "delete"
               /\ calls[p][2].k = Written(op[p])

C11_Witness ==
    \E p \in Procs :
        /\ Done(p, "put")
        /\ calls[p][1].tag = "IOError"
        /\ calls[p][2].tag = "ok"
        /\ Has(pre[p].cache, op[p].key)
        /\ ~ Has(cache, op[p].key)
        /\ result[p] = Raise("IOError", "store")

\* The value store holds at the written key once the store call of a put,
\* put_file or copy has returned.
StoreWrote(p) ==
    IF op[p].name = "copy"
    THEN Lookup(store, op[p].arg) = Lookup(pre[p].store, op[p].key)
    ELSE Lookup(store, op[p].key) = {op[p].arg}

\* C12: when cache.delete raises in the finally block of put, put_file or copy,
\* the operation raises the cache.delete error and nothing else: the store
\* call's own exception is replaced, and a store call that returned has its
\* result dropped although store was modified.  When cache.delete returns, the
\* outcome is the store call's.
C12_FinalizerWins ==
    \A p \in Procs :
        (pc[p] = "done" /\ op[p].name \in Finalized)
        => IF calls[p][2].tag # "ok"
           THEN /\ result[p] = Raise(calls[p][2].tag, "cache")
                /\ calls[p][1].tag = "ok" => StoreWrote(p)
           ELSE IF calls[p][1].tag = "ok"
                THEN result[p] = Ret("id", Written(op[p])) /\ StoreWrote(p)
                ELSE result[p] = Raise(calls[p][1].tag, "store")

C12_Witness ==
    \E p \in Procs :
        /\ Done(p, "copy")
        /\ calls[p][1].tag = "NotImplementedError"
        /\ calls[p][2].tag = "IOError"
        /\ result[p] = Raise("IOError", "cache")

\* C12: the finally block raises after a store.put that returned and wrote.
C12_WitnessStoreOk ==
    \E p \in Procs :
        /\ Done(p, "put")
        /\ calls[p][1].tag = "ok"
        /\ calls[p][2].tag = "IOError"
        /\ result[p] = Raise("IOError", "cache")
        /\ Lookup(pre[p].store, op[p].key) # {op[p].arg}
        /\ Lookup(store, op[p].key) = {op[p].arg}

\* C13 (as stated): delete(k) attempts both deletions: when store.delete(k) fails,
\* cache.delete(k) is still called before the failure reaches the caller.
C13_Stated ==
    \A p \in Procs :
        (Done(p, "delete") /\ calls[p][1].tag # "ok")
        => /\ Made(p, "cache", "delete")
           /\ ~ Returned(p)

\* p's operation had call i, a call to store, fail.
StoreFailed(p, i) ==
    /\ i \in DOMAIN calls[p]
    /\ calls[p][i].b = "store"
    /\ calls[p][i].tag # "ok"

\* C14 (as stated): whenever a call to store fails, the operation fails with that
\* store failure, also when a cache call of the same operation fails.
C14_Stated ==
    \A p \in Procs :
        pc[p] = "done"
        => \A i \in DOMAIN calls[p] :
            StoreFailed(p, i) => result[p] = Raise(calls[p][i].tag, "store")

\* C14 (amended): whenever a call to store fails, the operation fails with that
\* store failure, also after a cache call of the operation failed, except when
\* the cache.delete in the finally block of put, put_file or copy raises too:
\* then the operation fails with the cache.delete error.
C14_StoreFailureSurfaces ==
    \A p \in Procs :
        pc[p] = "done"
        => \A i \in DOMAIN calls[p] :
            StoreFailed(p, i)
            => IF op[p].name \in Finalized /\ calls[p][2].tag # "ok"
               THEN result[p] = Raise(calls[p][2].tag, "cache")
               ELSE result[p] = Raise(calls[p][i].tag, "store")

C14_Witness ==
    \E p \in Procs :
        /\ Done(p, "get")
        /\ FirstCall(p, "IOError")
        /\ StoreFailed(p, 2)
        /\ calls[p][2].tag = "IOError"
        /\ Has(store, op[p].key)
        /\ result[p] = Raise("IOError", "store")

\* C15: in get, get_file and open, after a miss reported by the cache and a
\* store read that returned, the next call is cache.put / cache.put_file on the
\* requested key; when it raises, the operation raises that error, makes no
\* further call, and the value read from store is not returned.
C15_FillFailureSurfaces ==
    \A p \in Procs :
        (/\ pc[p] = "done"
         /\ op[p].name \in ReadOps
         /\ FirstCall(p, "KeyError")
         /\ Len(calls[p]) >= 2
         /\ calls[p][2].tag = "ok")
        => /\ Len(calls[p]) >= 3
           /\ calls[p][3].b = "cache"
           /\ calls[p][3].m = (IF op[p].name = "get" THEN "put" ELSE "put_file")
           /\ calls[p][3].k = op[p].key
           /\ calls[p][3].tag # "ok"
                => /\ result[p] = Raise(calls[p][3].tag, "cache")
                   /\ Len(calls[p]) = 3

C15_Witness ==
    \E p \in Procs :
        /\ Done(p, "open")
        /\ FirstCall(p, "KeyError")
        /\ Len(calls[p]) = 3
        /\ calls[p][3].tag = "IOError"
        /\ Has(store, op[p].key)
        /\ result[p] = Raise("IOError", "cache")

\* Every key the cache holds is held by store with the same value.
Coherent == \A k \in DOMAIN cache : Lookup(store, k) = {cache[k]}

\* C17: starting with an empty cache, between the operations of one caller (none
\* in progress), as long as no backend call has failed, the cache is a subset of
\* store: every key it holds is in store with the same value.
C17_Coherence ==
    (clean /\ \A p \in Procs : pc[p] \in {"idle", "done"}) => Coherent

C17_Witness ==
    \E p \in Procs :
        /\ clean
        /\ Done(p, "copy") /\ Returned(p)
        /\ op[p].key # op[p].arg
        /\ Has(pre[p].cache, op[p].arg)
        /\ Lookup(pre[p].store, op[p].arg) # Lookup(store, op[p].arg)
        /\ Has(cache, op[p].key)

\* The steps at which a read operation stores into the cache.
FillPcs == {"get_fill", "get_file_fill", "open_fill"}

\* C20, the calls: delete, copy, put and put_file make only delete calls to the
\* cache; a cache.put / cache.put_file call is the third call of a get, get_file
\* or open, on the requested key, after the cache reported a miss and the store
\* read of that key returned; the value it is about to store is the one store
\* holds at that key.
C20_CallsOK ==
    \A p \in Procs :
        /\ \A i \in DOMAIN calls[p] :
            /\ (calls[p][i].b = "cache" /\ op[p].name \notin ReadOps)
                => calls[p][i].m = "delete"
            /\ (calls[p][i].b = "cache" /\ calls[p][i].m \in {"put", "put_file"})
                => /\ op[p].name \in ReadOps
                   /\ i = 3
                   /\ calls[p][i].k = op[p].key
                   /\ calls[p][1].b = "cache" /\ calls[p][1].tag = "KeyError"
                   /\ calls[p][2].b = "store" /\ calls[p][2].tag = "ok"
                   /\ calls[p][2].k = op[p].key
        /\ pc[p] \in FillPcs => Lookup(store, op[p].key) = {local[p].val}

\* C20, the effect: a step that stores a value at k in the cache is the fill step
\* of a read operation on k, and the value is the one that operation read.
C20_OnlyFills ==
    \A k \in Keys :
        (Has(cache', k) /\ Lookup(cache', k) # Lookup(cache, k))
        => \E p \in Procs :
            /\ pc[p] \in FillPcs
            /\ pc'[p] # pc[p]
            /\ op[p].key = k
            /\ cache'[k] = local[p].val

\* C20: the cache is never written speculatively: both parts above, in every
\* state and at every step.
C20_NoSpeculation == [] C20_CallsOK /\ [][C20_OnlyFills]_vars

C20_Witness ==
    \E p \in Procs :
        /\ Done(p, "get_file") /\ Returned(p)
        /\ Len(calls[p]) = 4
        /\ calls[p][3].m = "put_file"
        /\ ~ Has(pre[p].cache, op[p].key)
        /\ Lookup(cache, op[p].key) = Lookup(store, op[p].key)
        /\ sink[p] = <<store[op[p].key]>>

\* C16 (as stated): a get, get_file or open on a key that store holds throughout
\* the call (store held it when the call began, and the other caller only puts)
\* never fails with KeyError, whatever the interleaving with the other caller's
\* put / put_file, with no backend fault.
C16_Stated ==
    \A p \in Procs :
        (/\ pc[p] = "done"
         /\ op[p].name \in ReadOps
         /\ Has(pre[p].store, op[p].key)
         /\ Has(store, op[p].key))
        => ~ (result[p].kind = "raise" /\ result[p].tag = "KeyError")

\* C18: callers that only get, with no backend fault, on a cache that began as a
\* subset of store: in every state the cache is a subset of store, and every get
\* that is done returned the value store holds at its key (or raised store's
\* KeyError for a key store does not hold).
C18_ReadersBenign ==
    /\ Coherent
    /\ \A p \in Procs :
        Done(p, "get")
        => IF Has(store, op[p].key)
           THEN result[p] = Ret("data", store[op[p].key])
           ELSE result[p] = Raise("KeyError", "store")

\* C18: two gets of the same key both missed, both read store and both put.
C18_Witness ==
    /\ Done("p1", "get") /\ Done("p2", "get")
    /\ op["p1"].key = op["p2"].key
    /\ Made("p1", "cache", "put") /\ Made("p2", "cache", "put")
    /\ ~ Has(pre["p1"].cache, op["p1"].key)
    /\ ~ Has(pre["p2"].cache, op["p2"].key)
    /\ Returned("p1") /\ Returned("p2")

\* The cache holds at k a value that store does not hold at k.
Stale(k) == Has(cache, k) /\ Lookup(cache, k) # Lookup(store, k)

\* C19: one get(k) and one put(k, v2) have both completed and the cache is left
\* stale at k.  When the get began with the cache's entry for k (if any) equal
\* to store's, this is the lagging get: it missed, read from store the value v1
\* that store held when it began, and its cache.put landed after the put's
\* cache.delete; store holds v2 and the cache holds v1, which the get returned.
C19_StaleByLaggingGet ==
    \A r \in Procs : \A w \in Procs :
        (/\ Done(r, "get") /\ Done(w, "put")
         /\ op[r].key = op[w].key
         /\ Stale(op[r].key)
         /\ Lookup(pre[r].cache, op[r].key) \subseteq Lookup(pre[r].store, op[r].key))
        => /\ FirstCall(r, "KeyError")
           /\ Made(r, "cache", "put")
           /\ Lookup(pre[r].store, op[r].key) = {cache[op[r].key]}
           /\ result[r] = Ret("data", cache[op[r].key])
           /\ Lookup(store, op[w].key) = {op[w].arg}
           /\ cache[op[r].key] # op[w].arg

C19_Witness ==
    /\ Done("p1", "get") /\ Done("p2", "put")
    /\ op["p1"].key = op["p2"].key
    /\ pre["p1"].cache = Empty
    /\ Has(pre["p1"].store, op["p1"].key)
    /\ pre["p1"].store[op["p1"].key] # op["p2"].arg
    /\ Lookup(store, op["p2"].key) = {op["p2"].arg}
    /\ Lookup(cache, op["p1"].key) = {pre["p1"].store[op["p1"].key]}
    /\ Returned("p2")

\* C19: a get that begins after both have completed is served the stale value.
C19_WitnessLaterGet ==
    /\ Done("p1", "get") /\ Done("p2", "put")
    /\ op["p1"].key = op["p2"].key
    /\ pre["p1"].store = store
    /\ FirstCall("p1", "ok")
    /\ Len(calls["p1"]) = 1
    /\ result["p1"].val # op["p2"].arg
    /\ Lookup(store, op["p2"].key) = {op["p2"].arg}

====
